---- MODULE Spec2Model ----
(***************************************************************************)
(* Model of examples/asynchronous_processing.rs: an event loop that pulls  *)
(* receive results from a StreamConsumer, filters out errors, spawns one   *)
(* task per message which runs expensive_computation on the blocking pool  *)
(* and then produces the result with a FutureProducer.                     *)
(***************************************************************************)
EXTENDS Integers, Sequences, FiniteSets, Bags, TLC

\* ---------------------------------------------------------------- bounds
\* Number of receive results the source stream delivers before it ends.
MaxPulls == 3
\* Number of threads of the blocking pool behind block_on.
PoolSize == 1

\* ------------------------------------------------------------ input data
\* Payloads the source can deliver: "a", "bb", a byte string that is not
\* valid UTF-8, and no payload at all.
NoPayload == [present |-> FALSE, bytes |-> <<>>]
Str_a == [present |-> TRUE, bytes |-> <<97>>]
Str_bb == [present |-> TRUE, bytes |-> <<98, 98>>]
NotUtf8 == [present |-> TRUE, bytes |-> <<255>>]
Payloads == { Str_a, Str_bb, NotUtf8, NoPayload }

\* Contents of the input partition the consumer is subscribed to, by offset.
\* Each run reads one of these logs; offsets past the end wrap around.
Topics ==
    { <<Str_a, Str_bb, NotUtf8, NoPayload>>,
      <<Str_bb, Str_bb, Str_a, NotUtf8>>,
      <<NoPayload, NotUtf8, Str_a, Str_a>>,
      <<NotUtf8, NoPayload, NoPayload, Str_bb>> }

\* A KafkaResult<BorrowedMessage>: Ok(msg) or Err(kafka_error).
OkResult(o, p) == [kind |-> "msg", offset |-> o, payload |-> p]
ErrResult == [kind |-> "err", offset |-> -1, payload |-> NoPayload]

\* --------------------------------------------------------- pure functions
\* Message::payload_view::<str>(): None without a payload, Some(Err) when the
\* bytes are not UTF-8, Some(Ok(payload)) otherwise.  The inputs are single
\* byte code units, so the bytes are UTF-8 exactly when each is below 128.
payload_view(msg) ==
    IF ~msg.payload.present THEN [tag |-> "None", str |-> <<>>]
    ELSE IF \A i \in 1..Len(msg.payload.bytes) : msg.payload.bytes[i] < 128
         THEN [tag |-> "SomeOk", str |-> msg.payload.bytes]
         ELSE [tag |-> "SomeErr", str |-> <<>>]

\* format!("Payload len for {} is {}", payload, payload.len())
format_payload_len(payload) ==
    [text |-> "Payload len for {} is {}", arg |-> payload, len |-> Len(payload)]

\* Variant of expensive_computation that treats a message without payload
\* as one with an empty string.
expensive_computation_default(msg) ==
    LET view == payload_view(msg) IN
    CASE view.tag = "SomeOk"  -> format_payload_len(view.str)
      [] view.tag = "SomeErr" -> [text |-> "Message payload is not a string",
                                  arg |-> <<>>, len |-> 0]
      [] view.tag = "None"    -> format_payload_len(<<>>)

\* The value of expensive_computation(msg), a String.
expensive_computation(msg) ==
    LET view == payload_view(msg) IN
    CASE view.tag = "SomeOk"  -> format_payload_len(view.str)
      [] view.tag = "SomeErr" -> [text |-> "Message payload is not a string",
                                  arg |-> <<>>, len |-> 0]
      [] view.tag = "None"    -> [text |-> "No payload", arg |-> <<>>, len |-> 0]

\* BorrowedMessage::detach(): an owned copy of the message.
detach(borrowed_message) ==
    [offset |-> borrowed_message.offset, payload |-> borrowed_message.payload]

NoResult == [text |-> "", arg |-> <<>>, len |-> 0]

\* ------------------------------------------------------------------ state
VARIABLES
    topic,      \* payloads of the input partition, by offset
    pc,         \* position of stream_processor: "pull", "filter_map",
                \* "for_each" or "terminated"
    received,   \* every receive result the stream has yielded, in order
    held,       \* the receive result travelling through the combinators
    held_after_failure, \* history: some publish had failed when held was pulled
    warnings,   \* number of warn! lines written by the error filter
    units,      \* the spawned message_future tasks, in spawn order
    queue,      \* closures submitted to the blocking pool, waiting for a thread
    running,    \* units whose closure is executing on a pool thread
    stdout      \* lines printed by the producer future's continuation

vars == <<topic, pc, received, held, held_after_failure, warnings, units, queue, running, stdout>>

UnitIds == DOMAIN units

\* Offset the next message of the partition carries.
next_offset ==
    Cardinality({i \in DOMAIN received : received[i].kind = "msg"})

\* A task as created by tokio::spawn(message_future).
NewUnit(owned_message, after) ==
    [state |-> "Received", item |-> owned_message, result |-> NoResult,
     sent |-> <<>>, runs |-> 0, after_failure |-> after]

\* Payload of the message stored at offset o.
payload_at(o) == topic[(o % Len(topic)) + 1]

Init ==
    /\ topic \in Topics
    /\ pc = "pull"
    /\ received = <<>>
    /\ held = ErrResult
    /\ held_after_failure = FALSE
    /\ warnings = 0
    /\ units = <<>>
    /\ queue = <<>>
    /\ running = {}
    /\ stdout = {}

\* ----------------------------------------------------------- orchestrator
\* Variant of Pull without backpressure: the stream is polled again while the
\* item pulled before is still waiting for the for_each closure.
Pull_prefetch ==
    /\ pc \in {"pull", "for_each"}
    /\ Len(received) < MaxPulls
    /\ \E r \in {ErrResult, OkResult(next_offset, payload_at(next_offset))} :
          /\ held' = r
          /\ received' = Append(received, r)
    /\ held_after_failure' = \E u \in UnitIds : units[u].state = "PublishFailed"
    /\ pc' = "filter_map"
    /\ UNCHANGED <<topic, warnings, units, queue, running, stdout>>

\* consumer.start() yields the next receive result.
Pull ==
    /\ pc = "pull"
    /\ Len(received) < MaxPulls
    /\ \E r \in {ErrResult, OkResult(next_offset, payload_at(next_offset))} :
          /\ held' = r
          /\ received' = Append(received, r)
    /\ held_after_failure' = \E u \in UnitIds : units[u].state = "PublishFailed"
    /\ pc' = "filter_map"
    /\ UNCHANGED <<topic, warnings, units, queue, running, stdout>>

\* Variant of FilterMap that forgets to drop the errors.
FilterMap_pass_errors ==
    /\ pc = "filter_map"
    /\ pc' = "for_each"
    /\ UNCHANGED <<topic, received, held, held_after_failure, warnings, units, queue, running, stdout>>

\* Variant of FilterMap that ends the stream at the first transport error.
FilterMap_fatal ==
    /\ pc = "filter_map"
    /\ IF held.kind = "msg"
       THEN /\ pc' = "for_each"
            /\ UNCHANGED <<held, held_after_failure, warnings>>
       ELSE /\ warnings' = warnings + 1
            /\ held' = ErrResult
            /\ UNCHANGED held_after_failure
            /\ pc' = "terminated"
    /\ UNCHANGED <<topic, received, units, queue, running, stdout>>

\* The filter_map closure: Ok(msg) => Some(msg), Err => warn! and None.
FilterMap ==
    /\ pc = "filter_map"
    /\ IF held.kind = "msg"
       THEN /\ pc' = "for_each"
            /\ UNCHANGED <<held, held_after_failure, warnings>>
       ELSE /\ warnings' = warnings + 1
            /\ held' = ErrResult
            /\ UNCHANGED held_after_failure
            /\ pc' = "pull"
    /\ UNCHANGED <<topic, received, units, queue, running, stdout>>

\* Variant of ForEach that returns message_future to for_each instead of
\* spawning it, so the stream is not polled again while the unit is pending.
ForEach_inline ==
    /\ pc = "for_each"
    /\ units' = Append(units,
                  NewUnit(detach(held), held_after_failure))
    /\ held' = ErrResult
    /\ pc' = "awaiting_unit"
    /\ UNCHANGED <<topic, received, held_after_failure, warnings, queue, running, stdout>>

\* Variant of ForEach that moves the borrowed message into message_future
\* without detaching it.
ForEach_borrow ==
    /\ pc = "for_each"
    /\ units' = Append(units, NewUnit(held, held_after_failure))
    /\ held' = ErrResult
    /\ pc' = "pull"
    /\ UNCHANGED <<topic, received, held_after_failure, warnings, queue, running, stdout>>

\* The for_each closure: detach the message, build message_future, spawn it
\* and return ready(()).
ForEach ==
    /\ pc = "for_each"
    /\ units' = Append(units,
                  NewUnit(detach(held), held_after_failure))
    /\ held' = ErrResult
    /\ pc' = "pull"
    /\ UNCHANGED <<topic, received, held_after_failure, warnings, queue, running, stdout>>

\* Variant of StreamEnd that cancels the tasks still in flight, which then
\* end as failed.
StreamEnd_cancels ==
    /\ pc = "pull"
    /\ pc' = "terminated"
    /\ units' = [u \in DOMAIN units |->
                   IF units[u].state \in {"Received", "Offloading", "Offloaded"}
                   THEN [units[u] EXCEPT !.state = "OffloadFailed"]
                   ELSE IF units[u].state = "Publishing"
                        THEN [units[u] EXCEPT !.state = "PublishFailed"]
                        ELSE units[u]]
    /\ queue' = <<>>
    /\ running' = {}
    /\ UNCHANGED <<topic, received, held, held_after_failure, warnings, stdout>>

\* The stream ends and stream_processor.await returns.
StreamEnd ==
    /\ pc = "pull"
    /\ pc' = "terminated"
    /\ UNCHANGED <<topic, received, held, held_after_failure, warnings, units, queue, running, stdout>>

\* ----------------------------------------------------------- dispatch unit
\* Variant of UnitOffload that starts a thread of its own for the closure
\* instead of going through the pool.
UnitOffload_unpooled(u) ==
    /\ units[u].state = "Received"
    /\ units' = [units EXCEPT ![u].state = "Offloading", ![u].runs = @ + 1]
    /\ running' = running \cup {u}
    /\ UNCHANGED <<topic, pc, received, held, held_after_failure, warnings, queue, stdout>>

\* Variant of UnitOffload whose future hands the closure to the pool again
\* when it is polled after the result has arrived.
UnitOffload_repoll(u) ==
    /\ units[u].state \in {"Received", "Offloaded"}
    /\ units' = [units EXCEPT ![u].state = "Offloading"]
    /\ queue' = Append(queue, u)
    /\ UNCHANGED <<topic, pc, received, held, held_after_failure, warnings, running, stdout>>

\* Variant of UnitOffload that gives up when no pool thread is free.
UnitOffload_reject(u) ==
    /\ units[u].state = "Received"
    /\ IF Cardinality(running) >= PoolSize
       THEN /\ units' = [units EXCEPT ![u].state = "OffloadFailed"]
            /\ UNCHANGED queue
       ELSE /\ units' = [units EXCEPT ![u].state = "Offloading"]
            /\ queue' = Append(queue, u)
    /\ UNCHANGED <<topic, pc, received, held, held_after_failure, warnings, running, stdout>>

\* Variant of UnitOffload that calls expensive_computation in the task
\* itself, on the thread of the event loop, without block_on.
UnitOffload_inline(u) ==
    /\ units[u].state = "Received"
    /\ units' = [units EXCEPT ![u].state = "Offloaded",
                              ![u].runs = @ + 1,
                              ![u].result = expensive_computation(units[u].item)]
    /\ UNCHANGED <<topic, pc, received, held, held_after_failure, warnings, queue, running, stdout>>

\* Variant of UnitOffload that puts the closure in front of the waiting ones.
UnitOffload_lifo(u) ==
    /\ units[u].state = "Received"
    /\ units' = [units EXCEPT ![u].state = "Offloading"]
    /\ queue' = <<u>> \o queue
    /\ UNCHANGED <<topic, pc, received, held, held_after_failure, warnings, running, stdout>>

\* Variant of UnitOffload in which a task is polled for the first time only
\* while stream_processor is still being awaited.
UnitOffload_while_loop_alive(u) ==
    /\ pc # "terminated"
    /\ units[u].state = "Received"
    /\ units' = [units EXCEPT ![u].state = "Offloading"]
    /\ queue' = Append(queue, u)
    /\ UNCHANGED <<topic, pc, received, held, held_after_failure, warnings, running, stdout>>

\* First poll of message_future: block_on(closure) hands the closure to the
\* blocking pool and the task awaits the result.
UnitOffload(u) ==
    /\ units[u].state = "Received"
    /\ units' = [units EXCEPT ![u].state = "Offloading"]
    /\ queue' = Append(queue, u)
    /\ UNCHANGED <<topic, pc, received, held, held_after_failure, warnings, running, stdout>>

\* A free pool thread takes the oldest waiting closure and starts it.
WorkerTake ==
    /\ queue # <<>>
    /\ Cardinality(running) < PoolSize
    /\ running' = running \cup {Head(queue)}
    /\ queue' = Tail(queue)
    /\ units' = [units EXCEPT ![Head(queue)].runs = @ + 1]
    /\ UNCHANGED <<topic, pc, received, held, held_after_failure, warnings, stdout>>

\* Variant of WorkerFinish whose closure reads a message slot shared by all
\* units (the message spawned last) instead of its own owned_message.
WorkerFinish_shared(u) ==
    /\ u \in running
    /\ running' = running \ {u}
    /\ units' = [units EXCEPT ![u].state = "Offloaded",
                              ![u].result =
                                  expensive_computation(units[Len(units)].item)]
    /\ UNCHANGED <<topic, pc, received, held, held_after_failure, warnings, queue, stdout>>

\* Variant of WorkerFinish whose unit keeps its pool thread after the
\* computation, until the task is over.
WorkerFinish_keeps_thread(u) ==
    /\ u \in running
    /\ units[u].state = "Offloading"
    /\ units' = [units EXCEPT ![u].state = "Offloaded",
                              ![u].result = expensive_computation(units[u].item)]
    /\ UNCHANGED <<topic, pc, received, held, held_after_failure, warnings, queue, running, stdout>>

\* The closure returns: expensive_computation(owned_message) is the value of
\* the awaited future and the pool thread is free again.
WorkerFinish(u) ==
    /\ u \in running
    /\ running' = running \ {u}
    /\ units' = [units EXCEPT ![u].state = "Offloaded",
                              ![u].result = expensive_computation(units[u].item)]
    /\ UNCHANGED <<topic, pc, received, held, held_after_failure, warnings, queue, stdout>>

\* The closure panics: the awaited future fails, the task ends there.
WorkerPanic(u) ==
    /\ u \in running
    /\ running' = running \ {u}
    /\ units' = [units EXCEPT ![u].state = "OffloadFailed"]
    /\ UNCHANGED <<topic, pc, received, held, held_after_failure, warnings, queue, stdout>>

\* Variant of UnitSend in which the units reach the producer through a lock
\* that a failed unit leaves poisoned: nobody sends once a computation failed.
UnitSend_poisoned(u) ==
    /\ units[u].state = "Offloaded"
    /\ \A x \in UnitIds : units[x].state # "OffloadFailed"
    /\ units' = [units EXCEPT ![u].state = "Publishing",
                              ![u].sent = Append(@, units[u].result)]
    /\ UNCHANGED <<topic, pc, received, held, held_after_failure, warnings, queue, running, stdout>>

\* Variant of UnitSend that publishes a default result when the computation
\* has failed.
UnitSend_default(u) ==
    /\ units[u].state \in {"Offloaded", "OffloadFailed"}
    /\ units' = [units EXCEPT ![u].state = "Publishing",
                              ![u].sent = Append(@, units[u].result)]
    /\ UNCHANGED <<topic, pc, received, held, held_after_failure, warnings, queue, running, stdout>>

\* Variant of UnitSend that keeps the output in input order: a unit sends
\* only after every unit spawned before it has finished.
UnitSend_ordered(u) ==
    /\ units[u].state = "Offloaded"
    /\ \A x \in UnitIds : x < u => units[x].state \in
          {"Published", "PublishFailed", "OffloadFailed"}
    /\ units' = [units EXCEPT ![u].state = "Publishing",
                              ![u].sent = Append(@, units[u].result)]
    /\ UNCHANGED <<topic, pc, received, held, held_after_failure, warnings, queue, running, stdout>>

\* The task resumes with computation_result and calls producer.send with it.
UnitSend(u) ==
    /\ units[u].state = "Offloaded"
    /\ units' = [units EXCEPT ![u].state = "Publishing",
                              ![u].sent = Append(@, units[u].result)]
    /\ UNCHANGED <<topic, pc, received, held, held_after_failure, warnings, queue, running, stdout>>

\* Variant of SinkResolve whose delivery error ends the event loop.
SinkResolve_fatal(u, ok) ==
    /\ units[u].state = "Publishing"
    /\ IF ok
       THEN /\ stdout' = stdout \cup {<<"Sent", u>>}
            /\ units' = [units EXCEPT ![u].state = "Published"]
            /\ UNCHANGED pc
       ELSE /\ stdout' = stdout \cup {<<"Error", u>>}
            /\ units' = [units EXCEPT ![u].state = "PublishFailed"]
            /\ pc' = "terminated"
    /\ UNCHANGED <<topic, received, held, held_after_failure, warnings, queue, running>>

\* Variant of SinkResolve that sends the payload again after a delivery error.
SinkResolve_retry(u, ok) ==
    /\ units[u].state = "Publishing"
    /\ IF ok
       THEN /\ stdout' = stdout \cup {<<"Sent", u>>}
            /\ units' = [units EXCEPT ![u].state = "Published"]
       ELSE /\ stdout' = stdout \cup {<<"Error", u>>}
            /\ units' = [units EXCEPT ![u].state = "Offloaded"]
    /\ UNCHANGED <<topic, pc, received, held, held_after_failure, warnings, queue, running>>

\* The delivery future resolves and the then-closure prints the outcome.
SinkResolve(u, ok) ==
    /\ units[u].state = "Publishing"
    /\ IF ok
       THEN /\ stdout' = stdout \cup {<<"Sent", u>>}
            /\ units' = [units EXCEPT ![u].state = "Published"]
       ELSE /\ stdout' = stdout \cup {<<"Error", u>>}
            /\ units' = [units EXCEPT ![u].state = "PublishFailed"]
    /\ UNCHANGED <<topic, pc, received, held, held_after_failure, warnings, queue, running>>

Next ==
    \/ Pull
    \/ FilterMap
    \/ ForEach
    \/ StreamEnd
    \/ \E u \in UnitIds : UnitOffload(u)
    \/ WorkerTake
    \/ \E u \in UnitIds : WorkerFinish(u)
    \/ \E u \in UnitIds : WorkerPanic(u)
    \/ \E u \in UnitIds : UnitSend(u)
    \/ \E u \in UnitIds, ok \in BOOLEAN : SinkResolve(u, ok)

Spec == Init /\ [][Next]_vars

\* The program as it stands, with expensive_computation as the blocking
\* function: the closure always returns.
RefNext ==
    \/ Pull
    \/ FilterMap
    \/ ForEach
    \/ StreamEnd
    \/ \E u \in UnitIds : UnitOffload(u)
    \/ WorkerTake
    \/ \E u \in UnitIds : WorkerFinish(u)
    \/ \E u \in UnitIds : UnitSend(u)
    \/ \E u \in UnitIds, ok \in BOOLEAN : SinkResolve(u, ok)

RefSpec == Init /\ [][RefNext]_vars

\* The event loop polls every task that is ready, a free pool thread takes
\* the oldest queued closure, every computation returns or panics and every
\* delivery future resolves (message.timeout.ms bounds it).
Fairness ==
    /\ WF_vars(Pull \/ FilterMap \/ ForEach \/ StreamEnd)
    /\ WF_vars(WorkerTake)
    /\ \A u \in 1..MaxPulls :
          /\ WF_vars(u \in UnitIds /\ UnitOffload(u))
          /\ WF_vars(u \in UnitIds /\ (WorkerFinish(u) \/ WorkerPanic(u)))
          /\ WF_vars(u \in UnitIds /\ UnitSend(u))
          /\ WF_vars(u \in UnitIds /\ \E ok \in BOOLEAN : SinkResolve(u, ok))

FairSpec == Spec /\ Fairness

\* ------------------------------------------------------------- vocabulary
Terminal == {"Published", "PublishFailed", "OffloadFailed"}
IsMsg(r) == r.kind = "msg"
Successes == SelectSeq(received, IsMsg)
Errors == {i \in DOMAIN received : received[i].kind = "err"}
OrchestratorStep == Pull \/ FilterMap \/ ForEach \/ StreamEnd
InQueue(u) == \E i \in DOMAIN queue : queue[i] = u
\* Units whose closure has started and has not returned yet.
Computing == {u \in UnitIds : units[u].state = "Offloading" /\ units[u].runs > 0}
AllResults == {expensive_computation([offset |-> 0, payload |-> p]) : p \in Payloads}

\* ------------------------------------------------------------------ C1
\* C1: no unit ever holds an item that came from a receive error; whenever
\* the orchestrator is between items (and so once the stream is consumed)
\* the dispatched items are exactly the successfully received messages, in
\* order, and one warning was logged for every error, after which the loop
\* went on pulling.
C1_FilterCompleteness ==
    /\ \A u \in UnitIds :
          \E i \in DOMAIN received :
             /\ received[i].kind = "msg"
             /\ units[u].item = detach(received[i])
    /\ pc \in {"pull", "terminated"} =>
          /\ Len(units) = Len(Successes)
          /\ \A u \in UnitIds : units[u].item = detach(Successes[u])
          /\ warnings = Cardinality(Errors)

C1_Witness ==
    /\ pc = "terminated"
    /\ Len(received) = MaxPulls
    /\ received[1].kind = "err"
    /\ received[2].kind = "msg"
    /\ received[3].kind = "err"
    /\ Len(units) = 1

\* ------------------------------------------------------------------ C2
\* C2: the orchestrator never waits for a unit: it is always at one of its
\* own steps and that step is enabled whatever the units are doing, a pull
\* is enabled whenever the loop is at the pull and the source has more to
\* give, and without transport errors the number of spawned units equals the
\* number of items pulled.
C2_PullNeverBlocked ==
    /\ pc # "terminated" => ENABLED OrchestratorStep
    /\ (pc = "pull" /\ Len(received) < MaxPulls) => ENABLED Pull
    /\ pc = "for_each" => ENABLED ForEach
    /\ (pc \in {"pull", "terminated"} /\ Errors = {}) =>
          Len(units) = Len(received)

C2_Witness ==
    /\ pc = "pull"
    /\ Len(received) < MaxPulls
    /\ Errors = {}
    /\ Len(units) = 2
    /\ units[1].state = "Publishing"
    /\ units[2].state = "Offloading"
    /\ ENABLED Pull

\* ------------------------------------------------------------------ C3
\* C3: at most PoolSize computations execute at the same time, and a closure
\* still waiting in the queue has not started.
C3_BoundedPool ==
    /\ Cardinality(running) <= PoolSize
    /\ Cardinality(Computing) <= PoolSize
    /\ Computing = running
    /\ \A u \in UnitIds : InQueue(u) => units[u].runs = 0 /\ u \notin running

\* The unit dispatched after the pool filled up runs once a thread was freed.
C3_Witness ==
    /\ Cardinality(running) = PoolSize
    /\ \E u \in running : u > PoolSize
    /\ \E u \in UnitIds : units[u].state = "Offloaded"

\* ------------------------------------------------------------------ C4
\* C4: a spawned unit can always hand its closure to the pool, however many
\* threads are busy; a unit that is offloading is either queued exactly once
\* or running; and a unit is in OffloadFailed only after its closure was
\* started by a pool thread, never because the pool was full.
C4_SaturationNeverRejects ==
    /\ \A u \in UnitIds : units[u].state = "Received" => ENABLED UnitOffload(u)
    /\ \A u \in UnitIds :
          units[u].state = "Offloading" =>
             /\ (u \in running) # InQueue(u)
             /\ Cardinality({i \in DOMAIN queue : queue[i] = u}) <= 1
    /\ \A u \in UnitIds : units[u].state = "OffloadFailed" => units[u].runs = 1

C4_Witness ==
    /\ Cardinality(running) = PoolSize
    /\ Len(units) = MaxPulls
    /\ Len(units) > PoolSize
    /\ Len(queue) = Len(units) - PoolSize
    /\ \A u \in UnitIds : units[u].state = "Offloading"

\* ------------------------------------------------------------------ C5
\* C5: every payload a unit passes to the producer is the computation of that
\* unit's own message (the length reported is the length of its own
\* payload); a unit publishes at most once and there are never more units
\* than successfully received messages, so no receive error is published; and
\* when the stream is consumed and every unit is Published, the multiset of
\* published payloads is the multiset of computations of the successfully
\* received messages.
C5_OnePublishPerItem ==
    /\ Len(units) <= Len(Successes)
    /\ \A u \in UnitIds : Len(units[u].sent) <= 1
    /\ \A u \in UnitIds : \A i \in DOMAIN units[u].sent :
          /\ units[u].sent[i] = expensive_computation(detach(Successes[u]))
          /\ payload_view(units[u].item).tag = "SomeOk" =>
                /\ units[u].sent[i].arg = units[u].item.payload.bytes
                /\ units[u].sent[i].len = Len(units[u].item.payload.bytes)
    /\ (pc = "terminated" /\ \A u \in UnitIds : units[u].state = "Published") =>
          \A r \in AllResults :
             Cardinality({u \in UnitIds : units[u].sent = <<r>>}) =
             Cardinality({i \in DOMAIN Successes :
                            expensive_computation(detach(Successes[i])) = r})

C5_Witness ==
    /\ pc = "terminated"
    /\ Errors # {}
    /\ Len(units) = 2
    /\ \A u \in UnitIds : units[u].state = "Published"
    /\ units[1].sent # units[2].sent
    /\ units[2].sent[1].len = 2


\* ------------------------------------------------------------------ C6
\* Unit y ended by a failure of its own: its closure ran and panicked, or its
\* one publish was answered with an error.
OwnFailure(y) ==
    \/ units[y].state = "OffloadFailed" /\ units[y].runs = 1
    \/ /\ units[y].state = "PublishFailed"
       /\ Len(units[y].sent) = 1
       /\ <<"Error", y>> \in stdout

BecomesOffloadFailed(x) ==
    units[x].state # "OffloadFailed" /\ units'[x].state = "OffloadFailed"

\* C6: the step in which the computation of a unit x fails changes nothing
\* but x and the pool thread x gives back (not the orchestrator, not the
\* queue, not any other unit); and every other unit y that is in flight
\* while some x has failed goes on to Published unless its own computation
\* or its own publish fails.
C6_FailureIsolation ==
    /\ [][\A x \in UnitIds :
            BecomesOffloadFailed(x) =>
               /\ pc' = pc /\ held' = held /\ received' = received
               /\ queue' = queue /\ stdout' = stdout
               /\ running' = running \ {x}
               /\ DOMAIN units' = DOMAIN units
               /\ \A y \in UnitIds \ {x} : units'[y] = units[y]]_vars
    /\ \A y \in 1..MaxPulls :
          (/\ y \in UnitIds
           /\ units[y].state \notin Terminal
           /\ \E x \in UnitIds \ {y} : units[x].state = "OffloadFailed")
          ~> (y \in UnitIds /\ (units[y].state = "Published" \/ OwnFailure(y)))

C6_Witness ==
    /\ Len(units) >= 2
    /\ units[1].state = "OffloadFailed"
    /\ units[2].state = "Published"
    /\ units[2].sent = <<expensive_computation(units[2].item)>>
    /\ <<"Sent", 2>> \in stdout
    /\ pc = "pull"

\* ------------------------------------------------------------------ C7
BecomesPublishFailed(u) ==
    units[u].state # "PublishFailed" /\ units'[u].state = "PublishFailed"

\* C7: a failed publish is reported on stdout; the step that reports it
\* leaves the orchestrator where it was; with a failed unit around the
\* orchestrator's next step is still enabled (a pull when it is at the pull
\* and the source has more, the spawn when it holds an item); and an item
\* pulled after a failure is spawned and goes on to Published unless its own
\* computation or publish fails.
C7_PublishFailureNotFatal ==
    /\ [](\A u \in UnitIds :
            units[u].state = "PublishFailed" => <<"Error", u>> \in stdout)
    /\ []((\E u \in UnitIds : units[u].state = "PublishFailed") =>
            /\ pc # "terminated" => ENABLED OrchestratorStep
            /\ (pc = "pull" /\ Len(received) < MaxPulls) => ENABLED Pull
            /\ pc = "for_each" => ENABLED ForEach)
    /\ [][\A u \in UnitIds :
            BecomesPublishFailed(u) =>
               /\ pc' = pc /\ held' = held /\ received' = received
               /\ \A y \in UnitIds \ {u} : units'[y] = units[y]]_vars
    /\ \A y \in 1..MaxPulls :
          (/\ pc = "filter_map" /\ held.kind = "msg" /\ held_after_failure
           /\ Len(units) = y - 1)
          ~> (y \in UnitIds /\ (units[y].state = "Published" \/ OwnFailure(y)))

C7_Witness ==
    /\ Len(units) >= 2
    /\ units[1].state = "PublishFailed"
    /\ <<"Error", 1>> \in stdout
    /\ units[2].after_failure
    /\ units[2].state = "Published"
    /\ pc = "pull"
    /\ ENABLED Pull

\* ------------------------------------------------------------------ C8
UnitStates ==
    {"Received", "Offloading", "Offloaded", "OffloadFailed",
     "Publishing", "Published", "PublishFailed"}

UnitTransitions ==
    { <<"Received", "Offloading">>,
      <<"Offloading", "Offloaded">>, <<"Offloading", "OffloadFailed">>,
      <<"Offloaded", "Publishing">>,
      <<"Publishing", "Published">>, <<"Publishing", "PublishFailed">> }

\* What one step may do to the units.
UnitStep ==
    /\ \A u \in UnitIds :
          /\ u \in DOMAIN units'
          /\ \/ units'[u].state = units[u].state
             \/ <<units[u].state, units'[u].state>> \in UnitTransitions
          /\ units[u].state \in Terminal => units'[u] = units[u]
          /\ units'[u].runs >= units[u].runs
    /\ \A v \in (DOMAIN units') \ UnitIds :
          units'[v].state = "Received" /\ units'[v].runs = 0

\* C8: a unit starts in Received, every change of its state is one of the
\* transitions of the state machine, a unit in a terminal state never
\* changes again, and its computation is started at most once.
C8_UnitStateMachine ==
    /\ [](\A u \in UnitIds :
            units[u].state \in UnitStates /\ units[u].runs <= 1)
    /\ [][UnitStep]_vars

C8_Witness ==
    /\ Len(units) = 3
    /\ units[1].state = "Published" /\ units[1].runs = 1
    /\ units[2].state = "PublishFailed" /\ units[2].runs = 1
    /\ units[3].state = "OffloadFailed" /\ units[3].runs = 1

\* ------------------------------------------------------------------ C9
\* C9: a unit whose computation failed holds no result, has never called the
\* producer, has printed nothing and occupies neither a pool thread nor a
\* queue slot; it stays in OffloadFailed for good and never calls the
\* producer later; and a closure that leaves its pool thread leaves the unit
\* in Offloaded or OffloadFailed.
C9_ComputationFailure ==
    /\ [](\A u \in UnitIds :
            units[u].state = "OffloadFailed" =>
               /\ units[u].sent = <<>>
               /\ units[u].result = NoResult
               /\ <<"Sent", u>> \notin stdout /\ <<"Error", u>> \notin stdout
               /\ u \notin running /\ ~InQueue(u))
    /\ [][\A u \in UnitIds :
            /\ units[u].state = "OffloadFailed" =>
                  units'[u].state = "OffloadFailed" /\ units'[u].sent = <<>>
            /\ (u \in running /\ u \notin running') =>
                  units'[u].state \in {"Offloaded", "OffloadFailed"}]_vars

C9_Witness ==
    /\ pc = "terminated"
    /\ Len(units) = 2
    /\ units[2].state = "OffloadFailed"
    /\ units[2].sent = <<>>
    /\ units[1].state = "Published"
    /\ stdout = {<<"Sent", 1>>}

\* ------------------------------------------------------------------ C10
\* C10: a unit calls the producer at most once; a unit whose publish was
\* answered with an error is in PublishFailed with that one call made, and
\* is neither queued for the pool nor running on it.
C10_NoRetry ==
    /\ \A u \in UnitIds : Len(units[u].sent) <= 1
    /\ \A u \in UnitIds :
          <<"Error", u>> \in stdout =>
             /\ units[u].state = "PublishFailed"
             /\ Len(units[u].sent) = 1
    /\ \A u \in UnitIds :
          units[u].state = "PublishFailed" =>
             /\ ~InQueue(u) /\ u \notin running
             /\ units[u].runs = 1

C10_Witness ==
    /\ pc = "terminated"
    /\ Len(units) = MaxPulls
    /\ \A u \in UnitIds : units[u].state = "PublishFailed"
    /\ \A u \in UnitIds : Len(units[u].sent) = 1
    /\ queue = <<>> /\ running = {}

\* ------------------------------------------------------------------ C11
\* What one step may do to the computations: a computation starts only by
\* its closure moving onto a pool thread, and a result appears only when a
\* closure leaves its pool thread; neither happens in a step of the
\* orchestrator.
ComputationStep ==
    \A u \in UnitIds :
       /\ units'[u].runs > units[u].runs =>
             /\ u \in running' /\ u \notin running
             /\ pc' = pc /\ received' = received /\ held' = held
       /\ units'[u].result # units[u].result =>
             /\ u \in running /\ u \notin running'
             /\ pc' = pc /\ received' = received /\ held' = held

\* C11: the computations in progress are exactly the closures held by pool
\* threads, a unit has a result only if its closure ran once on the pool,
\* and computations start and finish only on pool threads, never in a step
\* of the event loop that runs the orchestrator.
C11_NeverOnControlThread ==
    /\ [](Computing = running)
    /\ [](\A u \in UnitIds :
            units[u].result # NoResult => units[u].runs = 1 /\ u \notin running)
    /\ [][ComputationStep]_vars

\* A computation is running on the pool while the orchestrator is in the
\* middle of handling the next item.
C11_Witness ==
    /\ pc = "for_each"
    /\ Cardinality(running) = PoolSize
    /\ \E u \in running : units[u].state = "Offloading" /\ units[u].runs = 1

\* ------------------------------------------------------------------ C12
\* What one step may do to the pool's queue: a request joins at the tail when
\* its unit submits it, and the request that gets a thread is the one at the
\* head.
QueueStep ==
    /\ \A u \in UnitIds :
          (u \in running' /\ u \notin running) =>
             /\ Cardinality(running) < PoolSize
             /\ queue # <<>> /\ u = Head(queue) /\ queue' = Tail(queue)
    /\ queue' # queue =>
          \/ queue # <<>> /\ queue' = Tail(queue) /\ Head(queue) \in running'
          \/ \E u \in UnitIds :
                /\ units[u].state = "Received"
                /\ queue' = Append(queue, u)

\* C12: requests are granted a pool thread in the order in which they were
\* submitted; and while requests wait behind a saturated pool the
\* orchestrator's next step is still enabled (a pull when it is at the pull
\* and the source has more) and so is the next step of every unit that is
\* not waiting for the pool.
C12_FifoLocalQueueing ==
    /\ [][QueueStep]_vars
    /\ []((queue # <<>> /\ Cardinality(running) = PoolSize) =>
            /\ pc # "terminated" => ENABLED OrchestratorStep
            /\ (pc = "pull" /\ Len(received) < MaxPulls) => ENABLED Pull
            /\ pc = "for_each" => ENABLED ForEach
            /\ \A u \in UnitIds :
                  /\ units[u].state = "Received" => ENABLED UnitOffload(u)
                  /\ units[u].state = "Offloaded" => ENABLED UnitSend(u)
                  /\ units[u].state = "Publishing" => ENABLED SinkResolve(u, TRUE))

\* Two requests wait behind a saturated pool, the one submitted first (by
\* the unit spawned later) ahead of the other, and the orchestrator can go on.
C12_Witness ==
    /\ Cardinality(running) = PoolSize
    /\ Len(queue) >= 2
    /\ queue[1] > queue[2]
    /\ pc = "pull"
    /\ ENABLED OrchestratorStep

\* ------------------------------------------------------------------ C13
\* Number of successfully received items that are not dispatched yet.
HeldItems == Len(Successes) - Len(units)

\* C13: the messages arrive in offset order; the units, in spawn order, hold
\* the successfully received messages in the order of their arrival; and the
\* combinators hold at most one item not yet dispatched, namely the one in
\* held while the filter or the for_each closure is working on it.
C13_InputOrderPreserved ==
    /\ \A i \in DOMAIN Successes : Successes[i].offset = i - 1
    /\ Len(units) <= Len(Successes)
    /\ \A u \in UnitIds : units[u].item = detach(Successes[u])
    /\ \A u, v \in UnitIds : u < v => units[u].item.offset < units[v].item.offset
    /\ HeldItems \in {0, 1}
    /\ HeldItems = 1 <=>
          (pc \in {"filter_map", "for_each"} /\ held.kind = "msg")
    /\ HeldItems = 1 => held = Successes[Len(Successes)]
    /\ pc \in {"pull", "terminated"} => held = ErrResult

\* The second message, received after an error, is the one item held while
\* the first is already dispatched.
C13_Witness ==
    /\ pc = "for_each"
    /\ Len(received) = 3
    /\ received[2].kind = "err"
    /\ held = received[3]
    /\ held.offset = 1
    /\ Len(units) = 1
    /\ units[1].item.offset = 0

\* ------------------------------------------------------------------ C14
\* The step in which the orchestrator terminates.
Terminates == pc # "terminated" /\ pc' = "terminated"

\* C14: the orchestrator terminates only from the pull, in a step in which
\* the stream ends or is cancelled and in which no error is filtered and no
\* unit changes; at the pull the end of the stream is accepted whatever the
\* units are doing; and with a finite source the orchestrator eventually
\* terminates.
C14_OrchestratorTermination ==
    /\ [][Terminates =>
            /\ pc = "pull"
            /\ warnings' = warnings /\ received' = received
            /\ units' = units /\ stdout' = stdout]_vars
    /\ [](pc = "pull" => ENABLED StreamEnd)
    /\ [](pc # "terminated" => ENABLED OrchestratorStep)
    /\ <>(pc = "terminated")

\* The source is exhausted after a transport error, a failed computation and
\* a failed publish, and the loop has ended while a unit is still in flight.
C14_Witness ==
    /\ pc = "terminated"
    /\ Len(received) = MaxPulls
    /\ Errors # {}
    /\ \E u \in UnitIds : units[u].state \in {"OffloadFailed", "PublishFailed"}
    /\ \E u \in UnitIds : units[u].state \notin Terminal

\* ------------------------------------------------------------------ C15
\* C15: once the orchestrator has terminated it stays terminated, nothing
\* more is pulled and no unit is spawned; the terminating step changes no
\* unit, no queue entry and no pool thread; and a unit reaches OffloadFailed
\* only from its own running closure and PublishFailed only from its own
\* pending publish, also after the orchestrator has terminated.
C15_FireAndForget ==
    /\ [][pc = "terminated" =>
            /\ pc' = "terminated"
            /\ received' = received /\ held' = held /\ warnings' = warnings
            /\ DOMAIN units' = DOMAIN units]_vars
    /\ [][Terminates =>
            /\ units' = units /\ queue' = queue
            /\ running' = running /\ stdout' = stdout]_vars
    /\ [][\A u \in UnitIds :
            /\ BecomesOffloadFailed(u) => u \in running /\ pc' = pc
            /\ BecomesPublishFailed(u) =>
                  units[u].state = "Publishing" /\ pc' = pc]_vars

\* The orchestrator has terminated with one unit computing, one waiting for
\* the pool and one not yet polled or publishing.
C15_Witness ==
    /\ pc = "terminated"
    /\ Len(units) = 3
    /\ Cardinality(running) = 1
    /\ Len(queue) = 1
    /\ \E u \in UnitIds : units[u].state \in {"Received", "Publishing"}
    /\ \A u \in UnitIds : units[u].state \notin Terminal

\* ------------------------------------------------------------------ C16
\* The message is in owned form: detaching it again changes nothing.
IsOwned(msg) == msg = detach(msg)

\* What one step may do to the messages the units hold: a unit is spawned by
\* the for_each closure with the detached copy of the message held at that
\* moment, before anything more is pulled, and its message is never touched
\* again, whatever is pulled later.
DetachStep ==
    /\ \A u \in UnitIds : units'[u].item = units[u].item
    /\ \A v \in (DOMAIN units') \ UnitIds :
          /\ pc = "for_each" /\ held.kind = "msg"
          /\ units'[v].item = detach(held)
          /\ received' = received

\* C16: every unit holds an owned copy, made in the for_each step before
\* the unit is spawned and before the next pull; the copy stays what it was
\* while the stream's buffer moves on; and every result is computed from the
\* copy of the message the unit was spawned for.
C16_DetachBeforeNextPull ==
    /\ [][DetachStep]_vars
    /\ [](\A u \in UnitIds :
            /\ IsOwned(units[u].item)
            /\ units[u].item = detach(received[
                   CHOOSE i \in DOMAIN received :
                      received[i].kind = "msg" /\ received[i].offset = u - 1])
            /\ units[u].result # NoResult =>
                  units[u].result = expensive_computation(detach(Successes[u])))

\* The closure of the first unit is running on its copy of the first
\* message while the stream has already delivered a different one.
C16_Witness ==
    /\ pc = "for_each"
    /\ 1 \in running
    /\ units[1].item.offset = 0
    /\ held.offset = 1
    /\ held.payload # units[1].item.payload
    /\ units[1].item = detach(Successes[1])

\* ------------------------------------------------------------------ C17
\* C17: nothing orders the outputs: a unit that has its result can send it,
\* and a unit whose publish is pending can have it delivered, whatever the
\* state of the units spawned before it.
C17_NoOutputOrder ==
    \A v \in UnitIds :
       /\ units[v].state = "Offloaded" => ENABLED UnitSend(v)
       /\ units[v].state = "Publishing" =>
             ENABLED SinkResolve(v, TRUE) /\ ENABLED SinkResolve(v, FALSE)

\* The second item is published while the first one, received before it, has
\* not even been computed.
C17_Witness ==
    /\ Len(units) >= 2
    /\ units[2].state = "Published"
    /\ <<"Sent", 2>> \in stdout
    /\ units[1].state = "Offloading"
    /\ units[1].sent = <<>>
    /\ units[1].item.offset < units[2].item.offset

\* ------------------------------------------------------------------ C18
\* C18: with the process running, the tasks polled, the pool threads taking
\* work and every computation and delivery coming to an end, every spawned
\* unit eventually is in Published, PublishFailed or OffloadFailed, also when
\* it has to wait behind a saturated pool.
C18_UnitLiveness ==
    \A u \in 1..MaxPulls :
       (u \in UnitIds) ~> (u \in UnitIds /\ units[u].state \in Terminal)

\* Every unit has finished, after two of them waited behind the saturated
\* pool (each ran its computation) and the orchestrator had long terminated.
C18_Witness ==
    /\ pc = "terminated"
    /\ Len(units) = MaxPulls
    /\ Len(units) > PoolSize + 1
    /\ \A u \in UnitIds : units[u].state \in Terminal /\ units[u].runs = 1
    /\ queue = <<>> /\ running = {}

\* ------------------------------------------------------------------ C19
\* C19: only a unit whose computation is in progress occupies a pool thread:
\* a unit that has its result, is publishing or has finished holds none; and
\* a waiting closure can be started whenever fewer than PoolSize
\* computations are in progress, however many publishes are pending.
C19_WorkerHeldOnlyWhileComputing ==
    /\ \A u \in UnitIds :
          units[u].state \in {"Received", "Offloaded", "Publishing", "Published",
                              "PublishFailed", "OffloadFailed"} => u \notin running
    /\ \A u \in running : u \in UnitIds /\ units[u].state = "Offloading"
    /\ (queue # <<>> /\ Cardinality(Computing) < PoolSize) => ENABLED WorkerTake

\* The first unit's publish is pending and holds no thread: the second
\* unit's computation has started on the pool's thread while the third waits.
C19_Witness ==
    /\ Len(units) = 3
    /\ units[1].state = "Publishing"
    /\ 2 \in running
    /\ Cardinality(running) = PoolSize
    /\ queue = <<3>>

\* ------------------------------------------------------------------ C20
HasResult == {"Offloaded", "Publishing", "Published", "PublishFailed"}
HasSent == {"Publishing", "Published", "PublishFailed"}

\* C20: with expensive_computation as the blocking function no unit is ever
\* in OffloadFailed and every running closure can return, whatever the
\* payload; the result is the text built from the payload and its length for
\* a string payload, "Message payload is not a string" for bytes that are not
\* a string and "No payload" for an absent payload; and that result is what
\* the unit passes to the producer.
C20_ReferenceComputationTotal ==
    \A u \in UnitIds :
       /\ units[u].state # "OffloadFailed"
       /\ u \in running => ENABLED WorkerFinish(u)
       /\ units[u].state \in HasResult =>
             /\ units[u].item.payload \in {Str_a, Str_bb} =>
                   units[u].result =
                      [text |-> "Payload len for {} is {}",
                       arg |-> units[u].item.payload.bytes,
                       len |-> Len(units[u].item.payload.bytes)]
             /\ units[u].item.payload = NotUtf8 =>
                   units[u].result.text = "Message payload is not a string"
             /\ units[u].item.payload = NoPayload =>
                   units[u].result.text = "No payload"
       /\ units[u].state \in HasSent => units[u].sent = <<units[u].result>>

\* A string, a payload that is not a string and an absent payload have all
\* been computed and published.
C20_Witness ==
    /\ Len(units) = 3
    /\ \A u \in UnitIds : units[u].state = "Published"
    /\ \E u \in UnitIds : units[u].item.payload = NoPayload
                          /\ units[u].sent[1].text = "No payload"
    /\ \E u \in UnitIds : units[u].item.payload = NotUtf8
    /\ \E u \in UnitIds : units[u].item.payload = Str_a
                          /\ units[u].sent[1].len = 1

====
